---- MODULE Spec2Model ----
(***************************************************************************)
(* Transcript lifecycle of the Meeting Recorder API (src/main.py):         *)
(* upload_meeting creates a provider job and inserts a meeting document,   *)
(* get_meeting lazily refreshes a non-terminal meeting from the provider.  *)
(* The provider (AssemblyAI) and the document store are the environment.   *)
(***************************************************************************)
EXTENDS Integers, Sequences, FiniteSets, TLC

\* ------------------------------------------------------------------ bounds
MaxMeetings == 1
NumGetters == 2
MaxFileLen == 1
MaxLimit == 2
MaxStored == 2
MaxUtterances == 2

\* ------------------------------------------------- python values, encoded
\* None and a missing dict key, for string-valued fields.
NULL == "<None>"
ABSENT == "<absent>"
\* Optional[T] for structured values: <<>> is None, <<x>> is x.
None == <<>>
Some(x) == <<x>>
\* transcript_id None (job ids are 1, 2, ...).
NoId == 0

\* dict.get(key): a missing key reads as None.
Get(v) == IF v = ABSENT THEN NULL ELSE v
\* dict.get(key, default)
GetDefault(v, default) == IF v = ABSENT THEN default ELSE v
\* truthiness of an optional string
Truthy(v) == v \notin {NULL, ABSENT, ""}
\* a or b
OrElse(a, b) == IF Truthy(a) THEN a ELSE b

\* JSON scalars of an utterance's timing fields.
JNum(n) == [t |-> "num", n |-> n]
JNull == [t |-> "null", n |-> 0]
JStr == [t |-> "str", n |-> 0]
\* float seconds n / 1000.0, kept exact as whole seconds and milliseconds.
Seconds(ms) == [t |-> "float", whole |-> ms \div 1000, frac |-> ms % 1000]
NoTime == [t |-> "None", whole |-> 0, frac |-> 0]

\* ------------------------------------------------------ provider payloads
\* Statuses the provider reports; "throttled" stands for any string outside
\* the four the service knows.
ProviderStatuses == {"queued", "throttled", "processing", "completed", "error"}
Rank(s) ==
  CASE s = "queued" -> 0
    [] s = "throttled" -> 1
    [] s = "processing" -> 2
    [] OTHER -> 3

\* Result part of a transcript payload before the job completes.
EmptyBody ==
  [text |-> NULL, language_code |-> NULL, language |-> ABSENT,
   utterances |-> <<>>, summary |-> NULL, summaries |-> <<>>]
\* Result parts a completed job can carry.
ResultBodies ==
  { [text |-> "hi there", language_code |-> "en", language |-> ABSENT,
     utterances |-> << [speaker |-> "A", text |-> "hi", start |-> JNum(1000), end |-> JNum(2500)],
                       [speaker |-> NULL, text |-> ABSENT, start |-> JNull, end |-> JStr] >>,
     summary |-> "S", summaries |-> <<>>],
    [text |-> "hello world", language_code |-> ABSENT, language |-> "de",
     utterances |-> <<>>, summary |-> ABSENT, summaries |-> <<"X">>],
    [text |-> NULL, language_code |-> NULL, language |-> ABSENT,
     utterances |-> <<>>, summary |-> "", summaries |-> <<>>] }

\* Result parts for the normalizer: every list of at most MaxUtterances
\* utterances with every kind of top-level text, every pairing of the flat
\* summary with a summaries list, and every pairing of the two language
\* fields. Utterance texts are strings when present.
NormUtterances ==
  { [speaker |-> "A", text |-> "hi", start |-> JNum(1000), end |-> JNum(2500)],
    [speaker |-> "B", text |-> "", start |-> JNum(0), end |-> JStr],
    [speaker |-> NULL, text |-> ABSENT, start |-> JNull, end |-> JNum(999)] }
NormTexts == {ABSENT, NULL, "", "hello world"}
NormBodies ==
  { [text |-> t, language_code |-> "en", language |-> ABSENT, utterances |-> u,
     summary |-> "S", summaries |-> <<>>] :
      t \in NormTexts,
      u \in UNION { [1..n -> NormUtterances] : n \in 0..MaxUtterances } }
  \cup
  { [text |-> "hello world", language_code |-> "en", language |-> ABSENT,
     utterances |-> <<>>, summary |-> s, summaries |-> l] :
      s \in {ABSENT, NULL, "", "S"},
      l \in {<<>>, <<"X">>, <<ABSENT>>, <<"", "Y">>} }
  \cup
  { [text |-> "hello world", language_code |-> c, language |-> l,
     utterances |-> <<>>, summary |-> NULL, summaries |-> <<>>] :
      c \in {ABSENT, NULL, "", "en"}, l \in {ABSENT, "de"} }

\* The JSON document GET /transcript/{id} answers with.
Payload(status, body) ==
  [status |-> status, text |-> body.text, language_code |-> body.language_code,
   language |-> body.language, utterances |-> body.utterances,
   summary |-> body.summary, summaries |-> body.summaries]

\* ------------------------------------------------------------ normalizer
\* start / end of a segment: milliseconds to float seconds when numeric.
ToSeconds(v) == IF v.t = "num" THEN Seconds(v.n) ELSE NoTime

\* SpeakerSegment(...).model_dump() of one utterance.
Segment(utt) ==
  [speaker |-> Get(utt.speaker), text |-> GetDefault(utt.text, ""),
   start |-> ToSeconds(utt.start), end |-> ToSeconds(utt.end)]

\* Mutant: the full-text segment is added whether or not there are
\* utterances.
to_speaker_segments_AlwaysFallback(provider_json) ==
  LET utterances == provider_json.utterances
      segments == [i \in 1..Len(utterances) |-> Segment(utterances[i])]
      text == GetDefault(provider_json.text, "")
  IN IF Truthy(text)
     THEN segments \o << [speaker |-> "Speaker 1", text |-> text,
                          start |-> NoTime, end |-> NoTime] >>
     ELSE segments

to_speaker_segments(provider_json) ==
  LET utterances == provider_json.utterances
      segments == [i \in 1..Len(utterances) |-> Segment(utterances[i])]
      text == GetDefault(provider_json.text, "")
  IN IF segments # <<>> THEN segments
     ELSE IF Truthy(text)
          THEN << [speaker |-> "Speaker 1", text |-> text, start |-> NoTime, end |-> NoTime] >>
          ELSE <<>>

\* summary: the flat field, else the first element of the summaries list.
\* Mutant: the summaries list is never consulted.
SummaryOf_FlatOnly(provider_json) ==
  Get(provider_json.summary)

SummaryOf(provider_json) ==
  LET summary == Get(provider_json.summary)
  IN IF ~Truthy(summary) /\ provider_json.summaries # <<>>
     THEN Get(provider_json.summaries[1])
     ELSE summary

\* ------------------------------------------------------------ the meeting
\* Mutant: the meeting is built without the provider's status, so the
\* schema's default stands.
NewMeeting_SchemaDefault(title, transcript_id, status) ==
  [title |-> title, source |-> "upload", transcript_id |-> transcript_id,
   provider |-> "assemblyai", status |-> "queued", language |-> NULL,
   transcript |-> NULL, summary |-> NULL, speakers |-> None,
   raw_provider_response |-> None]

\* Meeting(title, source, transcript_id, provider, status).model_dump()
NewMeeting(title, transcript_id, status) ==
  [title |-> title, source |-> "upload", transcript_id |-> transcript_id,
   provider |-> "assemblyai", status |-> status, language |-> NULL,
   transcript |-> NULL, summary |-> NULL, speakers |-> None,
   raw_provider_response |-> None]

ResultFields == {"transcript", "language", "summary", "speakers"}
Results(doc) == [k \in ResultFields |-> doc[k]]
NoResults == [k \in ResultFields |-> IF k = "speakers" THEN None ELSE NULL]

\* Mutant: the test forgets that "error" is terminal.
ShouldRefresh_IgnoresError(doc) ==
  doc.transcript_id # NoId /\ doc.status # "completed"

\* get_meeting's test for refreshing from the provider.
\* Mutant: only the two known non-terminal statuses are refreshed.
ShouldRefresh_KnownOnly(doc) ==
  doc.transcript_id # NoId /\ doc.status \in {"queued", "processing"}

ShouldRefresh(doc) ==
  doc.transcript_id # NoId /\ doc.status \notin {"completed", "error"}

\* Mutant: the raw payload is kept only with a completed result.
UpdateFields_RawWhenCompleted(provider_json, status) ==
  LET new_status == GetDefault(provider_json.status, status)
  IN IF new_status = "completed"
     THEN [status |-> new_status, raw_provider_response |-> Some(provider_json),
           transcript |-> Get(provider_json.text),
           language |-> OrElse(Get(provider_json.language_code), Get(provider_json.language)),
           speakers |-> Some(to_speaker_segments(provider_json)),
           summary |-> SummaryOf(provider_json)]
     ELSE [status |-> new_status]

\* Mutant: the result fields are written whatever the new status is.
UpdateFields_Unconditional(provider_json, status) ==
  [status |-> GetDefault(provider_json.status, status),
   raw_provider_response |-> Some(provider_json),
   transcript |-> Get(provider_json.text),
   language |-> OrElse(Get(provider_json.language_code), Get(provider_json.language)),
   speakers |-> Some(to_speaker_segments(provider_json)),
   summary |-> SummaryOf(provider_json)]

\* Mutant: the transcript id is refreshed from the payload's "id", which the
\* payload read here does not carry.
UpdateFields_SetsTranscriptId(provider_json, status) ==
  LET new_status == GetDefault(provider_json.status, status)
      base == [status |-> new_status, raw_provider_response |-> Some(provider_json),
               transcript_id |-> NoId]
  IN IF new_status = "completed"
     THEN base @@ [transcript |-> Get(provider_json.text),
                   language |-> OrElse(Get(provider_json.language_code), Get(provider_json.language)),
                   speakers |-> Some(to_speaker_segments(provider_json)),
                   summary |-> SummaryOf(provider_json)]
     ELSE base

\* get_meeting's update_fields, from the fetched payload and the status read.
\* Mutant: a payload that is not completed resets the result fields.
UpdateFields_ClearsResults(provider_json, status) ==
  LET new_status == GetDefault(provider_json.status, status)
      base == [status |-> new_status, raw_provider_response |-> Some(provider_json)]
  IN IF new_status = "completed"
     THEN base @@ [transcript |-> Get(provider_json.text),
                   language |-> OrElse(Get(provider_json.language_code), Get(provider_json.language)),
                   speakers |-> Some(to_speaker_segments(provider_json)),
                   summary |-> SummaryOf(provider_json)]
     ELSE base @@ NoResults

\* Mutant: the status already stored wins over the provider's.
UpdateFields_KeepsStatus(provider_json, status) ==
  LET new_status == status
      base == [status |-> new_status, raw_provider_response |-> Some(provider_json)]
  IN IF new_status = "completed"
     THEN base @@ [transcript |-> Get(provider_json.text),
                   language |-> OrElse(Get(provider_json.language_code), Get(provider_json.language)),
                   speakers |-> Some(to_speaker_segments(provider_json)),
                   summary |-> SummaryOf(provider_json)]
     ELSE base

UpdateFields(provider_json, status) ==
  LET new_status == GetDefault(provider_json.status, status)
      base == [status |-> new_status, raw_provider_response |-> Some(provider_json)]
  IN IF new_status = "completed"
     THEN base @@ [transcript |-> Get(provider_json.text),
                   language |-> OrElse(Get(provider_json.language_code), Get(provider_json.language)),
                   speakers |-> Some(to_speaker_segments(provider_json)),
                   summary |-> SummaryOf(provider_json)]
     ELSE base

\* Mutant: the raw payloads are collected ($push) instead of replaced.
SetFields_PushesRaw(doc, fields) ==
  [fields EXCEPT !.raw_provider_response = doc.raw_provider_response \o @] @@ doc

\* update_one({"$set": fields}) and dict.update(fields): a partial update.
SetFields(doc, fields) == fields @@ doc

\* the response document: "_id" replaced by "id".
Public(doc, id) == [id |-> id] @@ doc

\* ------------------------------------------------------------------ state
VARIABLES
  apiKey,      \* ASSEMBLYAI_API_KEY is set (read once, at import)
  meetings,    \* the "meeting" collection: the document of id i is meetings[i]
  jobs,        \* the provider's transcription jobs: job i is jobs[i]
  getter,      \* the get_meeting requests in flight, one per worker thread
  uploader,    \* the upload_meeting request in flight
  response,    \* the HTTP response sent by the step just taken, if any
  populated    \* history: per meeting, the updates that wrote the result fields

vars == <<apiKey, meetings, jobs, getter, uploader, response, populated>>

Getters == 1..NumGetters

GetterIdle == [pc |-> "idle", id |-> 0, doc |-> None, provider_json |-> None]
UploaderIdle ==
  [pc |-> "idle", len |-> 0, upload_url |-> "", job |-> NoId, status |-> ABSENT]

\* A response, with what its request did: the provider requests it issued
\* (uploads, creates, fetches), its store writes (inserts, updates), the
\* document it read and the body it answers with.
NoResponse ==
  [op |-> "none", who |-> 0, id |-> 0, code |-> 0, len |-> 0, uploads |-> 0,
   creates |-> 0, fetches |-> 0, inserts |-> 0, updates |-> 0, read |-> None,
   fetched |-> None, out |-> None, status |-> ABSENT, listed |-> <<>>]
ListResponse(limit, listed) ==
  [NoResponse EXCEPT !.op = "list_meetings", !.code = 200, !.len = limit,
                     !.listed = listed]
GetResponse(g, id, code, fetches, updates, read, fetched, out) ==
  [NoResponse EXCEPT !.op = "get_meeting", !.who = g, !.id = id, !.code = code,
                     !.fetches = fetches, !.updates = updates, !.read = read,
                     !.fetched = fetched, !.out = out]
UploadResponse(len, code, uploads, creates, inserts, id, status) ==
  [NoResponse EXCEPT !.op = "upload_meeting", !.len = len, !.code = code,
                     !.uploads = uploads, !.creates = creates,
                     !.inserts = inserts, !.id = id, !.status = status]

Init ==
  /\ apiKey \in BOOLEAN
  /\ meetings = <<>>
  /\ jobs = <<>>
  /\ getter = [g \in Getters |-> GetterIdle]
  /\ uploader = UploaderIdle
  /\ response = NoResponse
  /\ populated = <<>>

\* ------------------------------------------------------------------ store
\* create_document: the document is added to the collection; its id is its
\* place in it.
create_document(collection, doc) == Append(collection, doc)

\* get_documents: the first limit documents of the collection, in the
\* order of their insertion.
get_documents(collection, limit) ==
  SubSeq(collection, 1, IF limit < Len(collection) THEN limit ELSE Len(collection))

\* ---------------------------------------------------------- provider client
\* Mutant: the headers are built without looking at the key.
aai_headers_NoCheck(key) == "authorization"

\* _aai_headers: raises the 500 when the key is not set.
aai_headers(key) == IF ~key THEN "raise" ELSE "authorization"

\* ------------------------------------------------------------- get_meeting
\* find_one, the 404, and the test for a refresh; a meeting that needs none
\* is returned at once.
GetStart(g, id) ==
  /\ getter[g].pc = "idle"
  /\ IF id \notin DOMAIN meetings
     THEN /\ response' = GetResponse(g, id, 404, 0, 0, None, None, None)
          /\ getter' = getter
     ELSE IF ShouldRefresh(meetings[id])
          THEN /\ getter' = [getter EXCEPT ![g] =
                    [GetterIdle EXCEPT !.pc = "fetch", !.id = id, !.doc = Some(meetings[id])]]
               /\ response' = NoResponse
          ELSE /\ response' = GetResponse(g, id, 200, 0, 0, Some(meetings[id]), None,
                                          Some(Public(meetings[id], id)))
               /\ getter' = getter
  /\ UNCHANGED <<apiKey, meetings, jobs, uploader, populated>>

\* Mutant: a failed fetch marks the meeting as failed before answering.
GetFetch_MarksError(g) ==
  /\ getter[g].pc = "fetch"
  /\ LET me == getter[g]
         job == jobs[me.doc[1].transcript_id]
     IN IF aai_headers(apiKey) = "raise"
        THEN /\ getter' = [getter EXCEPT ![g] = GetterIdle]
             /\ response' = GetResponse(g, me.id, 500, 0, 0, me.doc, None, None)
             /\ meetings' = meetings
        ELSE \/ /\ getter' = [getter EXCEPT ![g].pc = "write",
                       ![g].provider_json = Some(Payload(job.status, job.body))]
                /\ response' = NoResponse
                /\ meetings' = meetings
             \/ \E code \in {502, 500} :
                  /\ getter' = [getter EXCEPT ![g] = GetterIdle]
                  /\ response' = GetResponse(g, me.id, code, 1, 0, me.doc, None, None)
                  /\ meetings' = [meetings EXCEPT ![me.id].status = "error"]
  /\ UNCHANGED <<apiKey, jobs, uploader, populated>>

\* fetch_transcript: no key is a 500 before any request; a provider status
\* >= 400 is a 502; a network failure is an unhandled exception (500). The
\* response counts the one request issued.
GetFetch(g) ==
  /\ getter[g].pc = "fetch"
  /\ LET me == getter[g]
         job == jobs[me.doc[1].transcript_id]
     IN IF aai_headers(apiKey) = "raise"
        THEN /\ getter' = [getter EXCEPT ![g] = GetterIdle]
             /\ response' = GetResponse(g, me.id, 500, 0, 0, me.doc, None, None)
        ELSE \/ /\ getter' = [getter EXCEPT ![g].pc = "write",
                       ![g].provider_json = Some(Payload(job.status, job.body))]
                /\ response' = NoResponse
             \/ \E code \in {502, 500} :
                  /\ getter' = [getter EXCEPT ![g] = GetterIdle]
                  /\ response' = GetResponse(g, me.id, code, 1, 0, me.doc, None, None)
  /\ UNCHANGED <<apiKey, meetings, jobs, uploader, populated>>

\* update_one with the update fields, the same fields applied to the copy
\* read, and the response.
GetWrite(g) ==
  /\ getter[g].pc = "write"
  /\ LET me == getter[g]
         fields == UpdateFields(me.provider_json[1], me.doc[1].status)
         doc == SetFields(me.doc[1], fields)
     IN /\ meetings' = [meetings EXCEPT ![me.id] = SetFields(@, fields)]
        /\ populated' = [populated EXCEPT ![me.id] =
             IF ResultFields \subseteq DOMAIN fields THEN @ + 1 ELSE @]
        /\ getter' = [getter EXCEPT ![g] = GetterIdle]
        /\ response' = GetResponse(g, me.id, 200, 1, 1, me.doc, me.provider_json,
                                   Some(Public(doc, me.id)))
  /\ UNCHANGED <<apiKey, jobs, uploader>>

\* ---------------------------------------------------------- upload_meeting
\* Mutant: the empty file is not rejected.
UploadStart_NoEmptyCheck(len, cap) ==
  /\ uploader.pc = "idle"
  /\ Len(jobs) < cap
  /\ uploader' = [UploaderIdle EXCEPT !.pc = "upload", !.len = len]
  /\ response' = NoResponse
  /\ UNCHANGED <<apiKey, meetings, jobs, getter, populated>>

\* file.read() and the empty-file 400.
UploadStart(len, cap) ==
  /\ uploader.pc = "idle"
  /\ len = 0 \/ Len(jobs) < cap
  /\ IF len = 0
     THEN /\ response' = UploadResponse(len, 400, 0, 0, 0, 0, ABSENT)
          /\ uploader' = uploader
     ELSE /\ uploader' = [UploaderIdle EXCEPT !.pc = "upload", !.len = len]
          /\ response' = NoResponse
  /\ UNCHANGED <<apiKey, meetings, jobs, getter, populated>>

\* Mutant: a failed upload is not raised; the job is created all the same.
UploadAudio_IgnoresError ==
  /\ uploader.pc = "upload"
  /\ IF aai_headers(apiKey) = "raise"
     THEN /\ uploader' = UploaderIdle
          /\ response' = UploadResponse(uploader.len, 500, 0, 0, 0, 0, ABSENT)
     ELSE /\ \E upload_url \in {"https://cdn/upload/1", ""} :
               uploader' = [uploader EXCEPT !.pc = "create",
                                            !.upload_url = upload_url]
          /\ response' = NoResponse
  /\ UNCHANGED <<apiKey, meetings, jobs, getter, populated>>

\* upload_to_assemblyai
UploadAudio ==
  /\ uploader.pc = "upload"
  /\ IF aai_headers(apiKey) = "raise"
     THEN /\ uploader' = UploaderIdle
          /\ response' = UploadResponse(uploader.len, 500, 0, 0, 0, 0, ABSENT)
     ELSE \/ /\ uploader' = [uploader EXCEPT !.pc = "create",
                                             !.upload_url = "https://cdn/upload/1"]
             /\ response' = NoResponse
          \/ \E code \in {502, 500} :
               /\ uploader' = UploaderIdle
               /\ response' = UploadResponse(uploader.len, code, 1, 0, 0, 0, ABSENT)
  /\ UNCHANGED <<apiKey, meetings, jobs, getter, populated>>

\* create_transcript: the provider starts a job and answers with its id and
\* status (either may be missing from the answer).
UploadCreate ==
  /\ uploader.pc = "create"
  /\ IF aai_headers(apiKey) = "raise"
     THEN /\ uploader' = UploaderIdle
          /\ response' = UploadResponse(uploader.len, 500, 1, 0, 0, 0, ABSENT)
          /\ jobs' = jobs
     ELSE \/ \E initial \in {"queued", "throttled"} :
               /\ jobs' = Append(jobs, [status |-> initial, body |-> EmptyBody])
               /\ \E id \in {Len(jobs) + 1, NoId}, status \in {initial, ABSENT} :
                    uploader' = [uploader EXCEPT !.pc = "insert", !.job = id,
                                                 !.status = status]
               /\ response' = NoResponse
          \/ \E code \in {502, 500} :
               /\ uploader' = UploaderIdle
               /\ response' = UploadResponse(uploader.len, code, 1, 1, 0, 0, ABSENT)
               /\ jobs' = jobs
  /\ UNCHANGED <<apiKey, meetings, getter, populated>>

\* Mutant: the insert also stamps the new status on the meetings already
\* stored.
UploadInsert_StampsAll ==
  /\ uploader.pc = "insert"
  /\ LET meeting_doc == NewMeeting("a.mp3", uploader.job,
                                   GetDefault(uploader.status, "processing"))
     IN /\ meetings' = create_document(
                        [i \in DOMAIN meetings |->
                           SetFields(meetings[i], [status |-> meeting_doc.status])],
                        meeting_doc)
        /\ response' = UploadResponse(uploader.len, 200, 1, 1, 1, Len(meetings'),
                                      meeting_doc.status)
  /\ uploader' = UploaderIdle
  /\ populated' = Append(populated, 0)
  /\ UNCHANGED <<apiKey, jobs, getter>>

\* Meeting(...), create_document and the response.
UploadInsert ==
  /\ uploader.pc = "insert"
  /\ LET meeting_doc == NewMeeting("a.mp3", uploader.job,
                                   GetDefault(uploader.status, "processing"))
     IN /\ meetings' = create_document(meetings, meeting_doc)
        /\ response' = UploadResponse(uploader.len, 200, 1, 1, 1, Len(meetings'),
                                      meeting_doc.status)
  /\ uploader' = UploaderIdle
  /\ populated' = Append(populated, 0)
  /\ UNCHANGED <<apiKey, jobs, getter>>

\* ----------------------------------------------------------- list_meetings
\* get_documents and the public form of each document.
ListMeetings(limit) ==
  /\ LET docs == get_documents(meetings, limit)
     IN response' = ListResponse(limit, [i \in 1..Len(docs) |-> Public(docs[i], i)])
  /\ UNCHANGED <<apiKey, meetings, jobs, getter, uploader, populated>>

\* ------------------------------------------------------------- environment
\* The provider works on a job: its status only advances, and the result
\* is fixed when the job completes. Every answer to a fetch carries the
\* job's status.
ProviderAdvance(j, bodies) ==
  /\ j \in DOMAIN jobs
  /\ \E status \in ProviderStatuses :
       /\ Rank(status) > Rank(jobs[j].status)
       /\ \E body \in IF status = "completed" THEN bodies ELSE {EmptyBody} :
            jobs' = [jobs EXCEPT ![j] = [status |-> status, body |-> body]]
  /\ response' = NoResponse
  /\ UNCHANGED <<apiKey, meetings, getter, uploader, populated>>

\* The service is restarted between requests, with or without the key in
\* its environment; the store and the provider's jobs outlive it.
Restart ==
  /\ \A g \in Getters : getter[g].pc = "idle"
  /\ uploader.pc = "idle"
  /\ apiKey' \in BOOLEAN
  /\ response' = NoResponse
  /\ UNCHANGED <<meetings, jobs, getter, uploader, populated>>

\* The requests of the worker threads G against a store of at most cap
\* meetings, with a provider whose completed jobs carry one of bodies; id
\* cap + 1 is never stored.
NextOf(G, cap, bodies) ==
  \/ \E g \in G, id \in 1..(cap + 1) : GetStart(g, id)
  \/ \E g \in G : GetFetch(g)
  \/ \E g \in G : GetWrite(g)
  \/ \E len \in 0..MaxFileLen : UploadStart(len, cap)
  \/ UploadAudio
  \/ UploadCreate
  \/ UploadInsert
  \/ \E limit \in 1..MaxLimit : ListMeetings(limit)
  \/ \E j \in 1..cap : ProviderAdvance(j, bodies)
  \/ Restart

Next == NextOf(Getters, MaxMeetings, ResultBodies)

Spec == Init /\ [][Next]_vars

\* One request at a time, against a provider whose results range over
\* NormBodies.
NextNorm == NextOf({1}, MaxMeetings, NormBodies)
SpecNorm == Init /\ [][NextNorm]_vars

\* fetch_transcript returning the provider's answer.
FetchOk(g) == GetFetch(g) /\ getter'[g].pc = "write"

\* Clients keep asking for every meeting on every worker thread, a request
\* that has fetched goes on to its update, and a fetch that is tried again
\* and again succeeds in the end.
Fairness ==
  \A g \in Getters :
    /\ \A id \in 1..MaxMeetings : WF_vars(GetStart(g, id))
    /\ WF_vars(GetFetch(g))
    /\ SF_vars(FetchOk(g))
    /\ WF_vars(GetWrite(g))
SpecLive == Spec /\ Fairness

\* One worker thread against a store of up to MaxStored meetings: uploads
\* and listings while other meetings are already stored.
NextStore == NextOf({1}, MaxStored, ResultBodies)
SpecStore == Init /\ [][NextStore]_vars

\* ================================================================= claims
Terminal(status) == status \in {"completed", "error"}
KnownStatuses == {"queued", "processing", "completed", "error"}
IsGet == response.op = "get_meeting"
IsUpload == response.op = "upload_meeting"
\* The step just taken is get_meeting's answer for a meeting it found.
GotMeeting == IsGet /\ response.read # None
\* The meeting has been stored as completed at some time.
EverCompleted(id) == populated[id] > 0

\* C1: a get_meeting of a meeting stored as completed or error issues no
\* provider request, writes nothing to the store and answers 200 with the
\* stored document, every field as stored.
C1_TerminalIsReturnedAsStored ==
  (GotMeeting /\ Terminal(response.read[1].status)) =>
    /\ response.code = 200
    /\ response.fetches = 0
    /\ response.updates = 0
    /\ meetings[response.id] = response.read[1]
    /\ response.out = Some(Public(meetings[response.id], response.id))
C1_Witness ==
  /\ GotMeeting
  /\ response.read[1].status = "completed"
  /\ response.code = 200

\* C2 as stated: a get_meeting of a meeting stored with a non-terminal
\* status issues exactly one provider fetch and leaves the fetched payload
\* in raw_provider_response.
C2_NonTerminalAlwaysFetches ==
  (GotMeeting /\ ~Terminal(response.read[1].status)) =>
    /\ response.fetches = 1
    /\ response.fetched # None
    /\ meetings[response.id].raw_provider_response = response.fetched

\* C2 amended: with the key set, a get_meeting of a meeting stored with a
\* non-terminal status and a transcript id issues exactly one provider
\* fetch; when the fetch succeeds its payload is in raw_provider_response
\* after the one update, whatever status it reports, and when it fails
\* nothing is written.
C2_RefreshFetchesOnce ==
  (GotMeeting /\ ~Terminal(response.read[1].status)
     /\ response.read[1].transcript_id # NoId /\ apiKey) =>
    /\ response.fetches = 1
    /\ response.code = 200 =>
         /\ response.fetched # None
         /\ response.updates = 1
         /\ meetings[response.id].raw_provider_response = response.fetched
    /\ response.code # 200 => response.updates = 0
C2_Witness ==
  /\ GotMeeting
  /\ response.read[1].status = "queued"
  /\ response.code = 200
  /\ response.fetched # None
  /\ response.fetched[1].status = "processing"
  /\ meetings[response.id].raw_provider_response = response.fetched

\* C3: once a meeting has been stored as completed, its stored status is
\* never queued or processing, however the get_meeting calls interleave.
C3_CompletedNeverRegresses ==
  \A id \in DOMAIN meetings :
    EverCompleted(id) => meetings[id].status \notin {"queued", "processing"}

\* C4: the result fields of a meeting are all null unless its stored
\* status is completed, and they are written by at most one update.
C4_ResultsOnlyWithCompleted ==
  \A id \in DOMAIN meetings :
    /\ meetings[id].status # "completed" => Results(meetings[id]) = NoResults
    /\ populated[id] <= 1

\* C5: once a meeting has been stored as completed, no step changes its
\* stored transcript, summary, language or speakers.
C5_ResultsFrozenAfterCompleted ==
  [][\A id \in DOMAIN meetings :
       EverCompleted(id) => Results(meetings'[id]) = Results(meetings[id])]_vars
\* The result fields have been written a second time.
C5_Witness == \E id \in DOMAIN meetings : populated[id] >= 2

\* C6: when a get_meeting writes after a concurrent get_meeting of the same
\* meeting has written (the store no longer holds what it read), the store
\* is left with the status and result fields of the more advanced of the
\* two provider states fetched.
C6_LastWriteKeepsMostAdvanced ==
  [][\A g \in Getters :
       (getter[g].pc = "write" /\ getter'[g].pc = "idle"
          /\ meetings[getter[g].id] # getter[g].doc[1]) =>
         LET id == getter[g].id
             before == meetings[id]
             mine == SetFields(before,
                       UpdateFields(getter[g].provider_json[1], getter[g].doc[1].status))
             best == IF Rank(before.status) > Rank(mine.status) THEN before ELSE mine
         IN /\ meetings'[id].status = best.status
            /\ Results(meetings'[id]) = Results(best)]_vars

\* C7: an upload_meeting of an empty file answers 400 having issued no
\* provider upload, created no job and inserted nothing: the meetings and
\* the provider's jobs are as before.
C7_EmptyUploadRejected ==
  [][(response'.op = "upload_meeting" /\ response'.len = 0) =>
       /\ response'.code = 400
       /\ response'.uploads = 0 /\ response'.creates = 0 /\ response'.inserts = 0
       /\ meetings' = meetings
       /\ jobs' = jobs]_vars
C7_Witness == IsUpload /\ response.len = 0 /\ response.code = 400

\* C8: without the key, a request that comes to a provider operation
\* answers 500 there, no provider request is issued, no job is created and
\* no meeting is inserted or updated.
C8_NoKeyFailsFast ==
  [][~apiKey =>
       /\ meetings' = meetings
       /\ Len(jobs') = Len(jobs)
       /\ response'.uploads = 0 /\ response'.creates = 0 /\ response'.fetches = 0
       /\ response'.inserts = 0 /\ response'.updates = 0
       /\ \A g \in Getters :
            getter[g].pc = "fetch" /\ getter'[g] # getter[g] =>
              getter'[g].pc = "idle" /\ response'.code = 500
       /\ uploader.pc = "upload" /\ uploader' # uploader =>
            uploader'.pc = "idle" /\ response'.code = 500]_vars
C8_Witness ==
  /\ ~apiKey
  /\ GotMeeting
  /\ ~Terminal(response.read[1].status)
  /\ response.code = 500
  /\ response.fetches = 0

\* C9: a get_meeting whose provider fetch fails answers with an error after
\* that one fetch and leaves the stored meetings as they were.
C9_FailedFetchLeavesStore ==
  [][\A g \in Getters :
       (getter[g].pc = "fetch" /\ getter'[g].pc = "idle" /\ apiKey) =>
         /\ response'.code \in {500, 502}
         /\ response'.fetches = 1
         /\ response'.updates = 0
         /\ meetings' = meetings]_vars
C9_Witness ==
  /\ GotMeeting
  /\ response.code = 502
  /\ response.fetches = 1
  /\ ShouldRefresh(meetings[response.id])

\* C10: the stored status of every meeting is queued, processing, completed
\* or error.
C10_StatusIsKnown ==
  \A id \in DOMAIN meetings : meetings[id].status \in KnownStatuses

\* C11: no step removes a stored meeting, moves it to another id or changes
\* its transcript_id, and a get_meeting answers with the id it was asked for
\* and the stored transcript_id.
C11_IdAndTranscriptIdFixed ==
  [][/\ \A id \in DOMAIN meetings :
          /\ id \in DOMAIN meetings'
          /\ meetings'[id].transcript_id = meetings[id].transcript_id
     /\ (response'.op = "get_meeting" /\ response'.out # None) =>
          /\ response'.out[1].id = response'.id
          /\ response'.out[1].transcript_id = meetings[response'.id].transcript_id]_vars
\* A meeting with a transcript id has been refreshed to completed.
C11_Witness ==
  \E id \in DOMAIN meetings :
    /\ meetings[id].transcript_id = id
    /\ meetings[id].status = "completed"
    /\ meetings[id].raw_provider_response # None

\* C12: an upload_meeting that answers 200 has added exactly one meeting and
\* changed no other; its status is the one in the provider's answer to the
\* job creation ("processing", not terminal, when the answer has none), its
\* transcript_id is the id in that answer, its result fields and raw payload
\* are null, and the response carries its id and status.
C12_UploadInsertsOneMeeting ==
  [][(response'.op = "upload_meeting" /\ response'.code = 200) =>
       /\ Len(meetings') = Len(meetings) + 1
       /\ \A id \in DOMAIN meetings : meetings'[id] = meetings[id]
       /\ LET inserted == meetings'[Len(meetings')]
          IN /\ inserted.status =
                  (IF uploader.status = ABSENT THEN "processing" ELSE uploader.status)
             /\ uploader.status = ABSENT => ~Terminal(inserted.status)
             /\ inserted.transcript_id = uploader.job
             /\ Results(inserted) = NoResults
             /\ inserted.raw_provider_response = None
             /\ response'.id = Len(meetings')
             /\ response'.status = inserted.status]_vars
\* The answer to the job creation had an id but no status.
C12_Witness ==
  /\ IsUpload
  /\ response.code = 200
  /\ meetings[response.id].status = "processing"
  /\ meetings[response.id].transcript_id = response.id

\* C13: a get_meeting that follows another on the same meeting, with nothing
\* written in between, and fetches the payload the first one fetched (the
\* one stored as raw_provider_response) leaves the stored document as the
\* first one left it.
C13_SamePayloadSameDocument ==
  [][\A g \in Getters :
       (getter[g].pc = "write" /\ getter'[g].pc = "idle"
          /\ meetings[getter[g].id] = getter[g].doc[1]
          /\ meetings[getter[g].id].raw_provider_response = getter[g].provider_json) =>
         meetings' = meetings]_vars
\* The second of two such calls has answered.
C13_Witness ==
  /\ GotMeeting
  /\ response.updates = 1
  /\ response.read[1].raw_provider_response = response.fetched
  /\ meetings[response.id] = response.read[1]

\* C14: the speakers stored with a completed payload are one segment per
\* utterance, in the utterances' order, when there are utterances; the
\* single segment "Speaker 1" with the full text and no times when there are
\* none and the top-level text is not empty; and no segment otherwise.
C14_SegmentsOfPayload ==
  \A id \in DOMAIN meetings :
    meetings[id].status = "completed" =>
      LET p == meetings[id].raw_provider_response[1]
          segs == meetings[id].speakers[1]
          hasText == p.text \notin {ABSENT, NULL, ""}
      IN /\ meetings[id].speakers # None
         /\ p.utterances # <<>> =>
              /\ Len(segs) = Len(p.utterances)
              /\ \A i \in 1..Len(segs) :
                   /\ segs[i].speaker =
                        (IF p.utterances[i].speaker = ABSENT THEN NULL
                         ELSE p.utterances[i].speaker)
                   /\ segs[i].text =
                        (IF p.utterances[i].text = ABSENT THEN ""
                         ELSE p.utterances[i].text)
         /\ (p.utterances = <<>> /\ hasText) =>
              segs = << [speaker |-> "Speaker 1", text |-> p.text,
                         start |-> NoTime, end |-> NoTime] >>
         /\ (p.utterances = <<>> /\ ~hasText) => segs = <<>>
\* Two different utterances and a top-level text have been normalized.
C14_Witness ==
  \E id \in DOMAIN meetings :
    /\ meetings[id].status = "completed"
    /\ Len(meetings[id].raw_provider_response[1].utterances) = 2
    /\ meetings[id].raw_provider_response[1].utterances[1]
         # meetings[id].raw_provider_response[1].utterances[2]
    /\ meetings[id].raw_provider_response[1].text = "hello world"
    /\ Len(meetings[id].speakers[1]) = 2

\* A get_meeting step that wrote a payload reporting "completed".
WroteCompleted ==
  /\ response'.op = "get_meeting"
  /\ response'.updates = 1
  /\ response'.fetched # None
  /\ response'.fetched[1].status = "completed"

\* C15 as stated: on the transition to completed the persisted summary is
\* the payload's flat summary whenever that field is present, even when it
\* is the empty string; otherwise the first summaries element's inner
\* summary; otherwise null.
C15_FlatSummaryIfPresent ==
  [][WroteCompleted =>
       LET p == response'.fetched[1]
       IN meetings'[response'.id].summary =
            (IF p.summary \notin {ABSENT, NULL} THEN p.summary
             ELSE IF p.summaries # <<>> THEN Get(p.summaries[1])
             ELSE NULL)]_vars

\* C15: on the transition to completed the persisted summary is the
\* payload's flat summary when that is a non-empty string; otherwise, when
\* the summaries list has a first element, that element's inner summary
\* (null when it has none); otherwise the flat value itself, null when the
\* field is absent or null.
C15_FlatSummaryIfNonEmpty ==
  [][WroteCompleted =>
       LET p == response'.fetched[1]
       IN meetings'[response'.id].summary =
            (IF p.summary \notin {ABSENT, NULL, ""} THEN p.summary
             ELSE IF p.summaries # <<>> THEN Get(p.summaries[1])
             ELSE IF p.summary = ABSENT THEN NULL
             ELSE p.summary)]_vars
\* An empty flat summary was passed over for the first summaries element.
C15_Witness ==
  /\ GotMeeting
  /\ response.updates = 1
  /\ response.fetched # None
  /\ response.fetched[1].status = "completed"
  /\ response.fetched[1].summary = ""
  /\ response.fetched[1].summaries = <<"X">>
  /\ meetings[response.id].summary = "X"

\* A get_meeting step that wrote a payload reporting anything but "completed".
WroteNotCompleted ==
  /\ response'.op = "get_meeting"
  /\ response'.updates = 1
  /\ response'.fetched # None
  /\ response'.fetched[1].status # "completed"

\* C16: a get_meeting whose fetch reports a status other than completed
\* writes status and raw_provider_response and leaves every other stored
\* field of the meeting as it was.
C16_NotCompletedWritesStatusAndRaw ==
  [][WroteNotCompleted =>
       LET id == response'.id
       IN /\ meetings'[id].status = response'.fetched[1].status
          /\ meetings'[id].raw_provider_response = response'.fetched
          /\ \A k \in {"transcript", "language", "summary", "speakers", "title",
                       "source", "provider", "transcript_id"} :
               meetings'[id][k] = meetings[id][k]]_vars
\* A payload that is not completed was written over a meeting that already
\* had its results, and the results are still there.
C16_Witness ==
  /\ GotMeeting
  /\ response.updates = 1
  /\ response.fetched # None
  /\ response.fetched[1].status # "completed"
  /\ Results(meetings[response.id]) # NoResults

\* C17: upload_meeting uploads, then creates the job, then inserts, and
\* stops at the first failure: a job is created only after the upload gave
\* a URL, a meeting is inserted only after its job was created, a failed
\* request inserts nothing (and creates nothing when it failed before the
\* job creation), so each stored meeting has its own created job.
C17_UploadThenCreateThenInsert ==
  [][/\ Len(jobs') > Len(jobs) =>
          /\ uploader.pc = "create"
          /\ Truthy(uploader.upload_url)
          /\ uploader'.pc = "insert"
          /\ meetings' = meetings
     /\ Len(meetings') > Len(meetings) =>
          /\ uploader.pc = "insert"
          /\ Len(jobs) = Len(meetings) + 1
          /\ jobs' = jobs
          /\ meetings'[Len(meetings')].transcript_id \in {Len(jobs), NoId}
     /\ response'.op = "upload_meeting" =>
          /\ response'.inserts <= response'.creates
          /\ response'.creates <= response'.uploads
          /\ response'.code >= 400 =>
               /\ response'.inserts = 0
               /\ meetings' = meetings
               /\ jobs' = jobs
               /\ uploader'.pc = "idle"
     /\ Len(meetings') <= Len(jobs')]_vars
\* The upload went through, the job creation failed, and nothing is stored.
C17_Witness ==
  /\ IsUpload
  /\ response.code = 502
  /\ response.uploads = 1
  /\ response.creates = 1
  /\ response.inserts = 0
  /\ meetings = <<>>
  /\ jobs = <<>>

\* C18: a stored meeting's document changes only in the write step of a
\* get_meeting on that meeting; upload_meeting and list_meetings leave every
\* existing meeting as it is and take no step of a provider fetch.
C18_OnlyGetMeetingChangesMeetings ==
  [][/\ \A id \in DOMAIN meetings :
          meetings'[id] # meetings[id] =>
            /\ \E g \in DOMAIN getter : getter[g].pc = "write" /\ getter[g].id = id
            /\ response'.op = "get_meeting"
            /\ response'.id = id
            /\ response'.updates = 1
     /\ (response'.op \in {"upload_meeting", "list_meetings"} \/ uploader' # uploader) =>
          /\ \A id \in DOMAIN meetings : meetings'[id] = meetings[id]
          /\ DOMAIN meetings \subseteq DOMAIN meetings'
          /\ populated' \in {populated, Append(populated, 0)}
          /\ response'.fetches = 0
          /\ getter' = getter]_vars
\* A second meeting has just been inserted next to a completed one, which
\* still has its status and results.
C18_Witness ==
  /\ IsUpload
  /\ response.code = 200
  /\ response.id = 2
  /\ meetings[1].status = "completed"
  /\ Results(meetings[1]) # NoResults
  /\ meetings[2].status # "completed"

\* A get_meeting step that wrote a payload whose status is none of the four
\* known ones.
WroteUnknown ==
  /\ response'.op = "get_meeting"
  /\ response'.updates = 1
  /\ response'.fetched # None
  /\ response'.fetched[1].status \notin KnownStatuses
\* get_meeting answers for a meeting it read with a status that is none of
\* the four known ones.
AnswersUnknown ==
  /\ response'.op = "get_meeting"
  /\ response'.read # None
  /\ response'.read[1].status \notin KnownStatuses

\* C19 as stated: a status outside the four known ones populates no result
\* field, and every later get_meeting of a meeting stored with such a status
\* fetches from the provider.
C19_UnknownStatusAlwaysRefetches ==
  [][/\ WroteUnknown =>
          /\ Results(meetings'[response'.id]) = Results(meetings[response'.id])
          /\ populated' = populated
     /\ AnswersUnknown => response'.fetches = 1]_vars

\* C19 amended: a status outside the four known ones populates no result
\* field and leaves the meeting refreshable; a later get_meeting of a
\* meeting stored with such a status and a transcript id is never answered
\* from the store alone: with the key set it fetches from the provider
\* once, without the key it fails with 500.
C19_UnknownStatusIsNonTerminal ==
  [][/\ WroteUnknown =>
          /\ Results(meetings'[response'.id]) = Results(meetings[response'.id])
          /\ populated' = populated
          /\ ShouldRefresh(meetings'[response'.id])
     /\ (AnswersUnknown /\ response'.read[1].transcript_id # NoId) =>
          /\ apiKey => response'.fetches = 1
          /\ ~apiKey => response'.code = 500 /\ response'.fetches = 0]_vars
\* A meeting stored with the status of an earlier unknown payload has been
\* fetched again, and still has no results.
C19_Witness ==
  /\ GotMeeting
  /\ response.read[1].status = "throttled"
  /\ response.read[1].raw_provider_response # None
  /\ response.fetches = 1
  /\ response.updates = 1
  /\ response.fetched[1].status = "throttled"
  /\ Results(meetings[response.id]) = NoResults

\* The meeting is stored with a transcript id whose job is terminal.
JobTerminal(id) ==
  /\ id \in DOMAIN meetings
  /\ meetings[id].transcript_id # NoId
  /\ Terminal(jobs[meetings[id].transcript_id].status)
\* The meeting is stored with the status of its job.
StatusOfJob(id) ==
  /\ id \in DOMAIN meetings
  /\ meetings[id].transcript_id # NoId
  /\ meetings[id].status = jobs[meetings[id].transcript_id].status

\* C20: when the key stays set, fetches succeed in the end and get_meeting
\* keeps being called, a meeting with a transcript id whose job has reached
\* a terminal status is eventually stored with that status, for good.
C20_EventuallyTerminalForGood ==
  \A id \in 1..MaxMeetings :
    (<>[]apiKey /\ <>JobTerminal(id)) => <>[](JobTerminal(id) /\ StatusOfJob(id))
\* The stored status has caught up with a job that failed.
C20_Witness ==
  /\ JobTerminal(1)
  /\ StatusOfJob(1)
  /\ meetings[1].status = "error"
  /\ meetings[1].raw_provider_response # None

====
